---- MODULE Spec2Model ----
(***************************************************************************)
(* Model of the notification relay of bw-sms-backend: the POST /send-sms  *)
(* handler of twilio-sms-server/server.js (sequential dispatch, logging   *)
(* each send to the document store) and of the later revision that        *)
(* dispatches with Promise.all.                                            *)
(***************************************************************************)
EXTENDS Integers, Sequences, FiniteSets

VARIABLES
  server,         \* the revision that is deployed: "server.js" or "part_001"
  body,           \* body[r]: req.body of request r
  pc,             \* pc[r]: where the handler of request r stands
  idx,            \* idx[r]: position of the for-of loop of server.js
  results,        \* results[r]: the results array of the handler
  mapped,         \* mapped[r][i]: value of the i-th promise given to Promise.all
  createCall,     \* createCall[r][i]: state of client.messages.create for entry i
  setCall,        \* setCall[r][i]: state of notificationRef.set for entry i
  responses,      \* responses[r]: the responses sent with res.status().json()
  providerCalls,  \* the calls the messaging provider has received, in order
  store,          \* the records under notifications/ in the document store
  origin,         \* origin[r]: the Origin header of request r
  route,          \* route[r]: method and path of request r
  nodeEnv,        \* process.env.NODE_ENV
  users,          \* what the document store holds under users/
  usersRead,      \* usersRead[r]: state of usersRef.once("value") of request r
  host            \* the static host: its files, its environment, its request

\* What the steps of POST /send-sms leave alone.
context == <<origin, route, nodeEnv, users, usersRead, host>>

vars == <<server, body, pc, idx, results, mapped, createCall, setCall,
          responses, providerCalls, store, origin, route, nodeEnv, users,
          usersRead, host>>

\* Longest recipient list of a request body.
MaxRecipients == 3

----------------------------------------------------------------------------
\* JavaScript values of a parsed JSON body.

JsUndefined == [kind |-> "undefined"]
JsString(s) == [kind |-> "string", chars |-> s]
JsNumber(n) == [kind |-> "number", num |-> n]
JsArray(es) == [kind |-> "array", elems |-> es]

\* !v is false
Truthy(v) ==
  CASE v.kind = "undefined" -> FALSE
    [] v.kind = "string" -> v.chars # <<>>
    [] v.kind = "number" -> v.num # 0
    [] v.kind = "array" -> TRUE

IsArray(v) == v.kind = "array"

TypeofString(v) == v.kind = "string"

Digits == <<"0", "1", "2", "3", "4", "5", "6", "7", "8", "9">>

IsDigit(c) == \E d \in 1..Len(Digits) : Digits[d] = c

IsNonZeroDigit(c) == \E d \in 2..Len(Digits) : Digits[d] = c

RECURSIVE Decimal(_)
Decimal(n) == IF n < 10 THEN <<Digits[n + 1]>>
              ELSE Append(Decimal(n \div 10), Digits[(n % 10) + 1])

\* String(v), the coercion RegExp.prototype.test applies to its argument.
ToString(v) ==
  CASE v.kind = "string" -> v.chars
    [] v.kind = "number" -> Decimal(v.num)
    [] v.kind = "undefined" -> <<"u", "n", "d", "e", "f", "i", "n", "e", "d">>

\* Variant: /^\+[1-9]\d+$/, no upper limit on the digits.
PhoneRegexTestNoLimit(s) ==
  /\ Len(s) >= 3
  /\ s[1] = "+"
  /\ IsNonZeroDigit(s[2])
  /\ \A k \in 3..Len(s) : IsDigit(s[k])

\* phoneRegex.test(s) for phoneRegex = /^\+[1-9]\d{1,14}$/
PhoneRegexTest(s) ==
  /\ Len(s) >= 3
  /\ Len(s) <= 16
  /\ s[1] = "+"
  /\ IsNonZeroDigit(s[2])
  /\ \A k \in 3..Len(s) : IsDigit(s[k])

----------------------------------------------------------------------------
\* Validation of the body, server.js lines 120-147.

\* Variant: the check of the length is missing.
PhoneNumbersRejectedNoLength(b) ==
  \/ ~Truthy(b.phoneNumbers)
  \/ ~IsArray(b.phoneNumbers)

PhoneNumbersRejected(b) ==
  \/ ~Truthy(b.phoneNumbers)
  \/ ~IsArray(b.phoneNumbers)
  \/ Len(b.phoneNumbers.elems) = 0

MessageRejected(b) ==
  \/ ~Truthy(b.message)
  \/ ~TypeofString(b.message)

\* Variant: phoneNumbers.find in place of filter, the first offender only.
InvalidNumbersFirst(phoneNumbers) ==
  LET bad == SelectSeq(phoneNumbers, LAMBDA num : ~PhoneRegexTest(ToString(num)))
  IN IF bad = <<>> THEN <<>> ELSE <<Head(bad)>>

\* phoneNumbers.filter((num) => !phoneRegex.test(num))
InvalidNumbers(phoneNumbers) ==
  SelectSeq(phoneNumbers, LAMBDA num : ~PhoneRegexTest(ToString(num)))

Passed == [status |-> 0]

\* Variant: the message is checked before the recipient list.
ValidateMessageFirst(b) ==
  IF MessageRejected(b)
  THEN [status |-> 400, success |-> FALSE,
        error |-> "Invalid request: message must be a non-empty string"]
  ELSE IF PhoneNumbersRejected(b)
  THEN [status |-> 400, success |-> FALSE,
        error |-> "Invalid request: phoneNumbers must be a non-empty array"]
  ELSE IF Len(InvalidNumbers(b.phoneNumbers.elems)) > 0
  THEN [status |-> 400, success |-> FALSE, error |-> "Invalid phone numbers",
        invalidNumbers |-> InvalidNumbers(b.phoneNumbers.elems)]
  ELSE Passed

\* The 400 response of the first check that fails, or Passed.
Validate(b) ==
  IF PhoneNumbersRejected(b)
  THEN [status |-> 400, success |-> FALSE,
        error |-> "Invalid request: phoneNumbers must be a non-empty array"]
  ELSE IF MessageRejected(b)
  THEN [status |-> 400, success |-> FALSE,
        error |-> "Invalid request: message must be a non-empty string"]
  ELSE IF Len(InvalidNumbers(b.phoneNumbers.elems)) > 0
  THEN [status |-> 400, success |-> FALSE, error |-> "Invalid phone numbers",
        invalidNumbers |-> InvalidNumbers(b.phoneNumbers.elems)]
  ELSE Passed

\* Validation of the Promise.all revision, part_001 line 168.
ValidatePar(b) ==
  IF \/ ~Truthy(b.phoneNumbers)
     \/ ~IsArray(b.phoneNumbers)
     \/ ~Truthy(b.message)
  THEN [status |-> 400, error |-> "Invalid request",
        details |-> "'phoneNumbers' must be an array and 'message' is required"]
  ELSE Passed

----------------------------------------------------------------------------
\* The request bodies the model draws from.

Chars(str) ==
  CASE str = "+12" -> <<"+", "1", "2">>
    [] str = "+909" -> <<"+", "9", "0", "9">>
    [] str = "bad" -> <<"b", "a", "d">>
    [] str = "hi" -> <<"h", "i">>
    [] str = "LotA" -> <<"L", "o", "t", "A">>
    [] str = "Unknown" -> <<"U", "n", "k", "n", "o", "w", "n">>
    [] str = "" -> <<>>

Elements == {JsString(Chars("+12")), JsString(Chars("+909")),
             JsString(Chars("bad")), JsNumber(12)}

RECURSIVE SeqsUpTo(_, _)
SeqsUpTo(S, n) ==
  IF n = 0 THEN {<<>>}
  ELSE LET shorter == SeqsUpTo(S, n - 1)
       IN shorter \cup {Append(q, e) : q \in shorter, e \in S}

PhoneNumbersValues ==
  {JsUndefined, JsString(Chars("+12"))}
    \cup {JsArray(es) : es \in SeqsUpTo(Elements, MaxRecipients)}

MessageValues == {JsUndefined, JsString(Chars("")), JsNumber(7), JsString(Chars("hi"))}

ParkingLotValues == {JsUndefined, JsString(Chars("LotA"))}

Bodies == [phoneNumbers : PhoneNumbersValues, message : MessageValues,
           parkingLot : ParkingLotValues]

Servers == {"server.js", "part_001"}

\* The entries of the recipient list, none when it is not an array.
Entries(b) == IF IsArray(b.phoneNumbers) THEN b.phoneNumbers.elems ELSE <<>>

----------------------------------------------------------------------------
\* State after the server has started and the requests have arrived.

\* A record that was under notifications/ before any request of the model.
OldRecord == [req |-> 0, i |-> 0, phoneNumber |-> JsString(Chars("+909")),
              message |-> JsString(Chars("hi")),
              parkingLot |-> JsString(Chars("Unknown"))]

\* A header that is absent, and one with a value.
NoHeader == [kind |-> "undefined"]
Header(text) == [kind |-> "text", text |-> text]

\* The records under users/, which the relay only reads.
SomeUsers == {"u1", "u2"}

\* A POST /send-sms request that the middleware has let through, in a process
\* whose NODE_ENV is not set.
\* The static host is another process; here it has no request.
HostIdle == [stage |-> "idle"]

InitContext(reqs) ==
  /\ host = HostIdle
  /\ origin = [r \in reqs |-> NoHeader]
  /\ route = [r \in reqs |-> "POST /send-sms"]
  /\ nodeEnv = "undefined"
  /\ users = SomeUsers
  /\ usersRead = [r \in reqs |-> "none"]

InitOf(reqs) ==
  /\ InitContext(reqs)
  /\ server \in Servers
  /\ body \in [reqs -> Bodies]
  /\ pc = [r \in reqs |-> "received"]
  /\ idx = [r \in reqs |-> 0]
  /\ results = [r \in reqs |-> <<>>]
  /\ mapped = [r \in reqs |-> <<>>]
  /\ createCall = [r \in reqs |-> [i \in 1..Len(Entries(body[r])) |-> "none"]]
  /\ setCall = [r \in reqs |-> [i \in 1..Len(Entries(body[r])) |-> "none"]]
  /\ responses = [r \in reqs |-> <<>>]
  /\ providerCalls = <<>>
  /\ store \in {<<>>, <<OldRecord>>}

Init == InitOf({1})

Reqs == DOMAIN pc

----------------------------------------------------------------------------
\* POST /send-sms of server.js, lines 115-198.

\* The sender number of the process, server.js line 33.
TwilioPhone == JsString(Chars("+909"))

\* The argument of client.messages.create for entry i, lines 153-157.
CreateArgs(r, i) ==
  [req |-> r, i |-> i, body |-> body[r].message, from |-> TwilioPhone,
   to |-> Entries(body[r])[i]]

\* messageResult.sid of the call the provider received as its n-th.
Sid(n) == n

SidOf(r, i) ==
  Sid(CHOOSE n \in 1..Len(providerCalls) :
        providerCalls[n].req = r /\ providerCalls[n].i = i)

\* line 159
SuccessEntry(r, i) ==
  [phoneNumber |-> Entries(body[r])[i], sid |-> SidOf(r, i), status |-> "success"]

\* line 171; error is the message of the error that was caught
FailedEntry(r, i, error) ==
  [phoneNumber |-> Entries(body[r])[i], error |-> error, status |-> "failed"]

\* parkingLot || "Unknown", line 166
ParkingLotOrUnknown(b) ==
  IF Truthy(b.parkingLot) THEN b.parkingLot ELSE JsString(Chars("Unknown"))

\* Variant: the record names the first recipient of the request.
NotificationRecordOfFirst(r, i) ==
  [req |-> r, i |-> i, phoneNumber |-> Entries(body[r])[1],
   message |-> body[r].message, parkingLot |-> ParkingLotOrUnknown(body[r])]

\* The record given to notificationRef.set, lines 163-168 (req and i say which
\* request and entry appended it; timestamp is set by the store).
NotificationRecord(r, i) ==
  [req |-> r, i |-> i, phoneNumber |-> Entries(body[r])[i],
   message |-> body[r].message, parkingLot |-> ParkingLotOrUnknown(body[r])]

\* Variant: results.some in place of results.every.
SomeFailed(res) == \E k \in 1..Len(res) : res[k].status = "failed"

\* results.every((result) => result.status === "failed"), line 176
AllFailed(res) == \A k \in 1..Len(res) : res[k].status = "failed"

\* lines 177-189
DispatchResponse(res) ==
  IF AllFailed(res)
  THEN [status |-> 500, success |-> FALSE,
        message |-> "Failed to send SMS to all numbers", results |-> res]
  ELSE [status |-> 200, success |-> TRUE,
        message |-> "SMS processing completed", results |-> res]

\* Variant: the loop stays on the entry, which is attempted again.
SameEntry(i) == i

\* The position the for-of loop takes after the iteration of entry i.
NextEntry(i) == i + 1

\* The results array after the catch block of lines 169-172 has run for
\* entry i with the error that was thrown.
Caught(res, r, i, error) == Append(res, FailedEntry(r, i, error))

\* The loop head with the loop at entry i, results res and the provider calls
\* cc: the next client.messages.create is issued, or the loop is over and the
\* response of lines 175-189 is sent.
Continue(r, i, res, cc) ==
  /\ results' = [results EXCEPT ![r] = res]
  /\ IF i <= Len(Entries(body[r]))
     THEN /\ providerCalls' = Append(providerCalls, CreateArgs(r, i))
          /\ createCall' = [cc EXCEPT ![r][i] = "pending"]
          /\ idx' = [idx EXCEPT ![r] = i]
          /\ pc' = [pc EXCEPT ![r] = "awaitCreate"]
          /\ UNCHANGED responses
     ELSE /\ responses' = [responses EXCEPT ![r] = Append(@, DispatchResponse(res))]
          /\ pc' = [pc EXCEPT ![r] = "done"]
          /\ createCall' = cc
          /\ UNCHANGED <<providerCalls, idx>>

\* Variant: the 400 response of a failed validation is sent without return, so
\* the handler goes on to the loop and to the response after it.
SendSmsNoReturn(r) ==
  /\ server = "server.js"
  /\ pc[r] = "received"
  /\ route[r] = "POST /send-sms"
  /\ LET sent == IF Validate(body[r]) # Passed
                 THEN Append(responses[r], Validate(body[r]))
                 ELSE responses[r]
     IN IF 1 <= Len(Entries(body[r]))
        THEN /\ responses' = [responses EXCEPT ![r] = sent]
             /\ providerCalls' = Append(providerCalls, CreateArgs(r, 1))
             /\ createCall' = [createCall EXCEPT ![r][1] = "pending"]
             /\ idx' = [idx EXCEPT ![r] = 1]
             /\ pc' = [pc EXCEPT ![r] = "awaitCreate"]
             /\ UNCHANGED results
        ELSE /\ responses' = [responses EXCEPT
                  ![r] = Append(sent, DispatchResponse(<<>>))]
             /\ pc' = [pc EXCEPT ![r] = "done"]
             /\ UNCHANGED <<results, createCall, idx, providerCalls>>
  /\ UNCHANGED <<server, body, mapped, setCall, store>>
  /\ UNCHANGED context

\* The handler runs from its entry to the first await or to its return.
SendSms(r) ==
  /\ server = "server.js"
  /\ pc[r] = "received"
  /\ route[r] = "POST /send-sms"
  /\ IF Validate(body[r]) # Passed
     THEN /\ responses' = [responses EXCEPT ![r] = Append(@, Validate(body[r]))]
          /\ pc' = [pc EXCEPT ![r] = "done"]
          /\ UNCHANGED <<results, createCall, idx, providerCalls>>
     ELSE Continue(r, 1, <<>>, createCall)
  /\ UNCHANGED <<server, body, mapped, setCall, store>>
  /\ UNCHANGED context

\* client.messages.create resolves: lines 158-163, up to the await of set.
CreateResolves(r) ==
  /\ server = "server.js"
  /\ pc[r] = "awaitCreate"
  /\ createCall[r][idx[r]] = "pending"
  /\ createCall' = [createCall EXCEPT ![r][idx[r]] = "resolved"]
  /\ results' = [results EXCEPT ![r] = Append(@, SuccessEntry(r, idx[r]))]
  /\ setCall' = [setCall EXCEPT ![r][idx[r]] = "pending"]
  /\ pc' = [pc EXCEPT ![r] = "awaitSet"]
  /\ UNCHANGED <<server, body, idx, mapped, responses, providerCalls, store>>
  /\ UNCHANGED context

\* client.messages.create rejects: the catch block, then the loop goes on.
CreateRejects(r) ==
  /\ server = "server.js"
  /\ pc[r] = "awaitCreate"
  /\ createCall[r][idx[r]] = "pending"
  /\ Continue(r, NextEntry(idx[r]),
              Caught(results[r], r, idx[r], "ProviderError"),
              [createCall EXCEPT ![r][idx[r]] = "rejected"])
  /\ UNCHANGED <<server, body, mapped, setCall, store>>
  /\ UNCHANGED context

\* Variant: database.ref("notifications").set(record), which replaces what is
\* under notifications/.
SetWhole(st, record) == <<record>>

\* database.ref("notifications").push() and set on it, lines 162-163: the
\* record becomes a new child, under an id no other child has.
Push(st, record) == Append(st, record)

\* notificationRef.set resolves: the record is in the store, the loop goes on.
SetResolves(r) ==
  /\ server = "server.js"
  /\ pc[r] = "awaitSet"
  /\ setCall[r][idx[r]] = "pending"
  /\ setCall' = [setCall EXCEPT ![r][idx[r]] = "resolved"]
  /\ store' = Push(store, NotificationRecord(r, idx[r]))
  /\ Continue(r, NextEntry(idx[r]), results[r], createCall)
  /\ UNCHANGED <<server, body, mapped>>
  /\ UNCHANGED context

\* notificationRef.set rejects inside the try block: the catch block runs.
SetRejects(r) ==
  /\ server = "server.js"
  /\ pc[r] = "awaitSet"
  /\ setCall[r][idx[r]] = "pending"
  /\ setCall' = [setCall EXCEPT ![r][idx[r]] = "rejected"]
  /\ Continue(r, NextEntry(idx[r]),
              Caught(results[r], r, idx[r], "StoreError"), createCall)
  /\ UNCHANGED <<server, body, mapped, store>>
  /\ UNCHANGED context

\* A pending provider call that never settles: no continuation ever runs.
CreateNeverSettles(r, i) ==
  /\ createCall[r][i] = "pending"
  /\ createCall' = [createCall EXCEPT ![r][i] = "never"]
  /\ UNCHANGED <<server, body, pc, idx, results, mapped, setCall, responses,
                 providerCalls, store>>
  /\ UNCHANGED context

\* A pending store write that never settles.
SetNeverSettles(r) ==
  /\ pc[r] = "awaitSet"
  /\ setCall[r][idx[r]] = "pending"
  /\ setCall' = [setCall EXCEPT ![r][idx[r]] = "never"]
  /\ UNCHANGED <<server, body, pc, idx, results, mapped, createCall, responses,
                 providerCalls, store>>
  /\ UNCHANGED context

----------------------------------------------------------------------------
\* POST /send-sms of the Promise.all revision, part_001 lines 163-204.

Pending == [status |-> "pending"]

\* The handler runs to the await of Promise.all: phoneNumbers.map calls every
\* async callback, and each runs to its await of twilioClient.messages.create.
SendSmsPar(r) ==
  /\ server = "part_001"
  /\ pc[r] = "received"
  /\ route[r] = "POST /send-sms"
  /\ IF ValidatePar(body[r]) # Passed
     THEN /\ responses' = [responses EXCEPT ![r] = Append(@, ValidatePar(body[r]))]
          /\ pc' = [pc EXCEPT ![r] = "done"]
          /\ UNCHANGED <<mapped, createCall, providerCalls>>
     ELSE /\ providerCalls' = providerCalls \o
               [i \in 1..Len(Entries(body[r])) |-> CreateArgs(r, i)]
          /\ createCall' = [createCall EXCEPT
               ![r] = [i \in 1..Len(Entries(body[r])) |-> "pending"]]
          /\ mapped' = [mapped EXCEPT
               ![r] = [i \in 1..Len(Entries(body[r])) |-> Pending]]
          /\ pc' = [pc EXCEPT ![r] = "awaitAll"]
          /\ UNCHANGED responses
  /\ UNCHANGED <<server, body, idx, results, setCall, store>>
  /\ UNCHANGED context

\* Variant: the callback pushes its entry to a shared array when its call
\* settles, so that the entries come in the order of settling.
MapResolvesInOrderOfSettling(r, i) ==
  /\ server = "part_001"
  /\ pc[r] = "awaitAll"
  /\ createCall[r][i] = "pending"
  /\ createCall' = [createCall EXCEPT ![r][i] = "resolved"]
  /\ LET k == CHOOSE k \in 1..Len(mapped[r]) :
                /\ mapped[r][k] = [status |-> "pending"]
                /\ \A j \in 1..(k - 1) : mapped[r][j] # [status |-> "pending"]
     IN mapped' = [mapped EXCEPT ![r][k] =
          [phoneNumber |-> Entries(body[r])[i], sid |-> SidOf(r, i),
           status |-> "success"]]
  /\ UNCHANGED <<server, body, pc, idx, results, setCall, responses,
                 providerCalls, store>>
  /\ UNCHANGED context

\* The call of entry i resolves: its callback returns, line 184.
MapResolves(r, i) ==
  /\ server = "part_001"
  /\ pc[r] = "awaitAll"
  /\ createCall[r][i] = "pending"
  /\ createCall' = [createCall EXCEPT ![r][i] = "resolved"]
  /\ mapped' = [mapped EXCEPT ![r][i] = SuccessEntry(r, i)]
  /\ UNCHANGED <<server, body, pc, idx, results, setCall, responses,
                 providerCalls, store>>
  /\ UNCHANGED context

\* The call of entry i rejects: its callback returns, line 186.
MapRejects(r, i) ==
  /\ server = "part_001"
  /\ pc[r] = "awaitAll"
  /\ createCall[r][i] = "pending"
  /\ createCall' = [createCall EXCEPT ![r][i] = "rejected"]
  /\ mapped' = [mapped EXCEPT ![r][i] = FailedEntry(r, i, "ProviderError")]
  /\ UNCHANGED <<server, body, pc, idx, results, setCall, responses,
                 providerCalls, store>>
  /\ UNCHANGED context

\* Variant: Promise.race in place of Promise.all, the first settled promise.
AnySettled(r) == \E i \in 1..Len(mapped[r]) : mapped[r][i] # Pending

\* Promise.all resolves once every promise of the array has: lines 176, 191-195.
AllSettled(r) == \A i \in 1..Len(mapped[r]) : mapped[r][i] # Pending

JoinAll(r) ==
  /\ server = "part_001"
  /\ pc[r] = "awaitAll"
  /\ AllSettled(r)
  /\ results' = [results EXCEPT ![r] = mapped[r]]
  /\ responses' = [responses EXCEPT ![r] = Append(@,
        [status |-> 200, success |-> TRUE,
         message |-> "SMS processing completed", results |-> mapped[r]])]
  /\ pc' = [pc EXCEPT ![r] = "done"]
  /\ UNCHANGED <<server, body, idx, mapped, createCall, setCall,
                 providerCalls, store>>
  /\ UNCHANGED context

----------------------------------------------------------------------------

Next ==
  \/ \E r \in Reqs : SendSms(r)
  \/ \E r \in Reqs : CreateResolves(r)
  \/ \E r \in Reqs : CreateRejects(r)
  \/ \E r \in Reqs : SetResolves(r)
  \/ \E r \in Reqs : SetRejects(r)
  \/ \E r \in Reqs : SetNeverSettles(r)
  \/ \E r \in Reqs : \E i \in DOMAIN createCall[r] : CreateNeverSettles(r, i)
  \/ \E r \in Reqs : SendSmsPar(r)
  \/ \E r \in Reqs : \E i \in DOMAIN createCall[r] : MapResolves(r, i)
  \/ \E r \in Reqs : \E i \in DOMAIN createCall[r] : MapRejects(r, i)
  \/ \E r \in Reqs : JoinAll(r)

Spec == Init /\ [][Next]_vars

----------------------------------------------------------------------------
\* Vocabulary of the properties.

N(r) == Len(Entries(body[r]))

Matches(e) == PhoneRegexTest(ToString(e))

\* The three rules of validation, as the handler of server.js applies them.
Rule1(b) == IsArray(b.phoneNumbers) /\ Len(b.phoneNumbers.elems) > 0
Rule2(b) == TypeofString(b.message) /\ b.message.chars # <<>>
Rule3(b) == \A k \in 1..Len(Entries(b)) : Matches(Entries(b)[k])

RulesPass(b) == Rule1(b) /\ Rule2(b) /\ Rule3(b)

Answered(r) == Len(responses[r]) > 0

Response(r) == responses[r][1]

\* The request was answered with the 200 or 500 response of the dispatch.
Dispatched(r) == Answered(r) /\ Response(r).status \in {200, 500}

CallsFor(r, i) ==
  {n \in 1..Len(providerCalls) : providerCalls[n].req = r /\ providerCalls[n].i = i}

RecordsFor(r, i) ==
  {n \in 1..Len(store) : store[n].req = r /\ store[n].i = i}

RecordsOf(r) == {n \in 1..Len(store) : store[n].req = r}

\* The outcome list the provider results determine: one entry per recipient.
ExpectedResults(r) ==
  [i \in 1..N(r) |->
     IF createCall[r][i] = "resolved" THEN SuccessEntry(r, i)
     ELSE FailedEntry(r, i, "ProviderError")]

----------------------------------------------------------------------------
\* C1: the outcome list of the response to a validated request has exactly one
\* entry per recipient, entry i being the outcome of recipient i, whatever
\* provider calls and notification writes succeed or fail.
C1_OneOutcomePerRecipient ==
  \A r \in Reqs :
    (server = "server.js" /\ Dispatched(r)) =>
      /\ Len(Response(r).results) = N(r)
      /\ \A i \in 1..N(r) :
           Response(r).results[i].phoneNumber = Entries(body[r])[i]

\* C2: when the provider call of a recipient succeeded and the append of its
\* notification record failed, the response is the one the request gets when
\* the append succeeds: that recipient is reported as success only.
C2_StoreFailureKeepsResponse ==
  \A r \in Reqs :
    (/\ server = "server.js"
     /\ Dispatched(r)
     /\ \E i \in 1..N(r) : setCall[r][i] = "rejected") =>
      responses[r] = <<DispatchResponse(ExpectedResults(r))>>

\* C3: the dispatch of server.js answers 500 with success false exactly when
\* every provider call failed and 200 with success true exactly when one or
\* more succeeded, and the response carries the whole results array, which
\* holds an entry for every recipient.
C3_StatusFollowsProvider ==
  \A r \in Reqs :
    (server = "server.js" /\ pc[r] = "done" /\ RulesPass(body[r])) =>
      /\ Dispatched(r)
      /\ (Response(r).status = 500 /\ Response(r).success = FALSE)
           <=> (\A i \in 1..N(r) : createCall[r][i] = "rejected")
      /\ (Response(r).status = 200 /\ Response(r).success = TRUE)
           <=> (\E i \in 1..N(r) : createCall[r][i] = "resolved")
      /\ Response(r).results = results[r]
      /\ \A i \in 1..N(r) : \E k \in 1..Len(Response(r).results) :
           Response(r).results[k].phoneNumber = Entries(body[r])[i]

\* A request with one failed and one successful provider call was answered.
C3_Witness ==
  \E r \in Reqs :
    /\ server = "server.js" /\ pc[r] = "done" /\ N(r) = 2
    /\ createCall[r][1] = "rejected" /\ createCall[r][2] = "resolved"
    /\ Response(r).status = 200

\* C4 as stated: after a 200 response the store holds a record of the request
\* for each recipient reported as success and none for one reported as failed:
\* for every phone number, as many records as success outcomes.
C4_RecordForEverySuccess ==
  \A r \in Reqs :
    (server = "server.js" /\ Dispatched(r) /\ Response(r).status = 200) =>
      \A k \in 1..Len(Response(r).results) :
        LET p == Response(r).results[k].phoneNumber
            recs == {n \in RecordsOf(r) : store[n].phoneNumber = p}
            succ == {j \in 1..Len(Response(r).results) :
                       /\ Response(r).results[j].phoneNumber = p
                       /\ Response(r).results[j].status = "success"}
        IN Cardinality(recs) = Cardinality(succ)

\* C4 amended: after a 200 response the store holds a record of the request,
\* exactly one and carrying that recipient and the message, for each recipient
\* whose provider call succeeded and whose append did not fail, and no record
\* of the request for a recipient whose provider call failed.
C4_RecordForEveryLoggedSuccess ==
  \A r \in Reqs :
    (server = "server.js" /\ Dispatched(r) /\ Response(r).status = 200) =>
      \A i \in 1..N(r) :
        /\ (createCall[r][i] = "resolved" /\ setCall[r][i] # "rejected") =>
             /\ Cardinality(RecordsFor(r, i)) = 1
             /\ \A n \in RecordsFor(r, i) :
                  /\ store[n].phoneNumber = Entries(body[r])[i]
                  /\ store[n].message = body[r].message
        /\ createCall[r][i] = "rejected" => RecordsFor(r, i) = {}

\* A 200 response after two successful sends to different recipients, the
\* first logged and the second not.
C4_Witness ==
  \E r \in Reqs :
    /\ server = "server.js" /\ Dispatched(r) /\ Response(r).status = 200
    /\ N(r) = 2 /\ Entries(body[r])[1] # Entries(body[r])[2]
    /\ setCall[r][1] = "rejected" /\ setCall[r][2] = "resolved"

\* The requests C5 speaks of: recipient list missing, not an array or empty;
\* message missing or not a string; or a recipient that does not match.
C5_FailsValidation(b) ==
  \/ b.phoneNumbers.kind = "undefined"
  \/ b.phoneNumbers.kind # "array"
  \/ Len(Entries(b)) = 0
  \/ b.message.kind = "undefined"
  \/ b.message.kind # "string"
  \/ \E k \in 1..Len(Entries(b)) : ~Matches(Entries(b)[k])

\* C5: a request that fails validation never causes a provider call or a
\* store write, and the answer it gets is a 400.
C5_RejectedRequestHasNoEffect ==
  \A r \in Reqs :
    (server = "server.js" /\ C5_FailsValidation(body[r])) =>
      /\ \A n \in 1..Len(providerCalls) : providerCalls[n].req # r
      /\ RecordsOf(r) = {}
      /\ \A i \in 1..N(r) : createCall[r][i] = "none" /\ setCall[r][i] = "none"
      /\ pc[r] \in {"received", "done"}
      /\ pc[r] = "done" => (Len(responses[r]) = 1 /\ Response(r).status = 400)

\* A request with a well-formed and a malformed recipient was answered.
C5_Witness ==
  \E r \in Reqs :
    /\ server = "server.js" /\ pc[r] = "done" /\ Rule2(body[r])
    /\ N(r) = 2
    /\ Matches(Entries(body[r])[1]) /\ ~Matches(Entries(body[r])[2])
    /\ Response(r).status = 400

\* C6: the provider is never called twice for a recipient entry, and when the
\* dispatch response is sent it has been called once for every entry, with
\* that entry as destination.
C6_OneCallPerRecipient ==
  \A r \in Reqs :
    /\ \A i \in 1..N(r) : Cardinality(CallsFor(r, i)) <= 1
    /\ Dispatched(r) =>
         \A i \in 1..N(r) :
           /\ Cardinality(CallsFor(r, i)) = 1
           /\ \A n \in CallsFor(r, i) : providerCalls[n].to = Entries(body[r])[i]

\* The loop of server.js went on to the second recipient after the first
\* failed, and the response was sent.
C6_Witness ==
  \E r \in Reqs :
    /\ server = "server.js" /\ Dispatched(r) /\ N(r) = 2
    /\ createCall[r][1] = "rejected" /\ createCall[r][2] \in {"resolved", "rejected"}

\* C7: when the provider call or the notification write of one recipient
\* never settles, the provider calls of all the other recipients are issued.
C7_NoRecipientHeldBack ==
  \A r \in Reqs :
    (\E i \in 1..N(r) : createCall[r][i] = "never" \/ setCall[r][i] = "never") =>
      \A j \in 1..N(r) : createCall[r][j] # "none"

\* C8: the 200 or 500 response of the dispatch is sent only when the attempt
\* of every recipient has settled: no provider call and no notification write
\* of the request is pending or was never issued.
C8_ResponseAfterAllSettled ==
  \A r \in Reqs :
    Dispatched(r) =>
      \A i \in 1..N(r) :
        /\ createCall[r][i] \in {"resolved", "rejected"}
        /\ setCall[r][i] \in {"none", "resolved", "rejected"}
        /\ server = "server.js" /\ createCall[r][i] = "resolved"
             => setCall[r][i] # "none"

\* The Promise.all revision answered a request with two recipients.
C8_Witness ==
  \E r \in Reqs :
    /\ server = "part_001" /\ Dispatched(r) /\ N(r) = 2
    /\ createCall[r][1] = "rejected" /\ createCall[r][2] = "resolved"

\* Rule 1 as C9 states it: the recipient list is a non-empty sequence of strings.
C9_Rule1OfStrings(b) ==
  /\ Rule1(b)
  /\ \A k \in 1..Len(Entries(b)) : Entries(b)[k].kind = "string"

RecipientsError == "Invalid request: phoneNumbers must be a non-empty array"
MessageError == "Invalid request: message must be a non-empty string"
PhoneNumbersError == "Invalid phone numbers"

\* C9 as stated: the 400 response names the first broken rule, rule 1 asking
\* for a non-empty sequence of strings.
C9_FirstBrokenRuleOfStrings ==
  \A r \in Reqs :
    (server = "server.js" /\ pc[r] = "done") =>
      /\ ~C9_Rule1OfStrings(body[r]) =>
           Response(r).status = 400 /\ Response(r).error = RecipientsError
      /\ (C9_Rule1OfStrings(body[r]) /\ ~Rule2(body[r])) =>
           Response(r).status = 400 /\ Response(r).error = MessageError
      /\ (C9_Rule1OfStrings(body[r]) /\ Rule2(body[r]) /\ ~Rule3(body[r])) =>
           Response(r).status = 400 /\ Response(r).error = PhoneNumbersError

\* C9 amended: the 400 response names the first broken rule, rule 1 asking
\* for a non-empty array whatever the type of its elements; an element that
\* is not a string is judged by rule 3.
C9_FirstBrokenRule ==
  \A r \in Reqs :
    (server = "server.js" /\ pc[r] = "done") =>
      /\ Len(responses[r]) = 1
      /\ ~Rule1(body[r]) =>
           Response(r).status = 400 /\ Response(r).error = RecipientsError
      /\ (Rule1(body[r]) /\ ~Rule2(body[r])) =>
           Response(r).status = 400 /\ Response(r).error = MessageError
      /\ (Rule1(body[r]) /\ Rule2(body[r]) /\ ~Rule3(body[r])) =>
           Response(r).status = 400 /\ Response(r).error = PhoneNumbersError
      /\ RulesPass(body[r]) => Response(r).status # 400

\* A body with a recipient that is not a string and without a usable message
\* was answered: rules 2 and 3 are broken and the message error is reported.
C9_Witness ==
  \E r \in Reqs :
    /\ server = "server.js" /\ pc[r] = "done"
    /\ Rule1(body[r]) /\ ~Rule2(body[r]) /\ ~Rule3(body[r])
    /\ \E k \in 1..N(r) : Entries(body[r])[k].kind = "number"
    /\ Response(r).error = MessageError

\* The recipients of a list that do not match the pattern, in input order.
RECURSIVE NonMatching(_)
NonMatching(es) ==
  IF es = <<>> THEN <<>>
  ELSE (IF Matches(Head(es)) THEN <<>> ELSE <<Head(es)>>) \o NonMatching(Tail(es))

\* C10: when rules 1 and 2 pass and a recipient does not match the pattern,
\* the 400 response lists the recipients that do not match, all of them, in
\* input order, and no other.
C10_ListsEveryInvalidNumber ==
  \A r \in Reqs :
    (/\ server = "server.js" /\ pc[r] = "done"
     /\ Rule1(body[r]) /\ Rule2(body[r]) /\ ~Rule3(body[r])) =>
      /\ Response(r).status = 400
      /\ Response(r).invalidNumbers = NonMatching(Entries(body[r]))

\* A list with a matching recipient between two that do not match was
\* answered with both of them.
C10_Witness ==
  \E r \in Reqs :
    /\ server = "server.js" /\ pc[r] = "done"
    /\ Rule1(body[r]) /\ Rule2(body[r]) /\ N(r) = 3
    /\ ~Matches(Entries(body[r])[1])
    /\ Matches(Entries(body[r])[2])
    /\ ~Matches(Entries(body[r])[3])
    /\ Entries(body[r])[1] # Entries(body[r])[3]
    /\ Len(Response(r).invalidNumbers) = 2

----------------------------------------------------------------------------
\* The steps of server.js alone, and requests of one recipient string.

NextSeq ==
  \/ \E r \in Reqs : SendSms(r)
  \/ \E r \in Reqs : CreateResolves(r)
  \/ \E r \in Reqs : CreateRejects(r)
  \/ \E r \in Reqs : SetResolves(r)
  \/ \E r \in Reqs : SetRejects(r)
  \/ \E r \in Reqs : SetNeverSettles(r)
  \/ \E r \in Reqs : \E i \in DOMAIN createCall[r] : CreateNeverSettles(r, i)

\* Every string over PhoneAlphabet of at most MaxLen characters.
MaxLen == 3
PhoneAlphabet == {"+", "0", "1", "9", "a"}

\* "+1" followed by k zeros, for k up to MaxZeros, and the same string with
\* its last character replaced by a letter.
MaxZeros == 16

RECURSIVE Zeros(_)
Zeros(k) == IF k = 0 THEN <<>> ELSE Append(Zeros(k - 1), "0")

PhoneStrings ==
  SeqsUpTo(PhoneAlphabet, MaxLen)
    \cup {<<"+", "1">> \o Zeros(k) : k \in 0..MaxZeros}
    \cup {<<"+", "1">> \o Zeros(k) \o <<"a">> : k \in 0..MaxZeros}

PhoneBodies ==
  {[phoneNumbers |-> JsArray(<<JsString(str)>>),
    message |-> JsString(Chars("hi")),
    parkingLot |-> JsUndefined] : str \in PhoneStrings}

InitPhone ==
  /\ InitContext({1})
  /\ server = "server.js"
  /\ body \in [{1} -> PhoneBodies]
  /\ pc = [r \in {1} |-> "received"]
  /\ idx = [r \in {1} |-> 0]
  /\ results = [r \in {1} |-> <<>>]
  /\ mapped = [r \in {1} |-> <<>>]
  /\ createCall = [r \in {1} |-> <<"none">>]
  /\ setCall = [r \in {1} |-> <<"none">>]
  /\ responses = [r \in {1} |-> <<>>]
  /\ providerCalls = <<>>
  /\ store = <<>>

SpecPhone == InitPhone /\ [][NextSeq]_vars

\* The recipient string of a request of SpecPhone.
TheString(r) == Entries(body[r])[1].chars

DigitChars == {"0", "1", "2", "3", "4", "5", "6", "7", "8", "9"}

\* "+" followed by lo to hi decimal digits, the first of them 1-9, and
\* nothing before or after.
PlusDigits(str, lo, hi) ==
  /\ Len(str) >= 1 + lo
  /\ Len(str) <= 1 + hi
  /\ str[1] = "+"
  /\ str[2] \in DigitChars \ {"0"}
  /\ \A k \in 2..Len(str) : str[k] \in DigitChars

\* Validation let the recipient through: its provider call was issued.
Accepted(r) == createCall[r][1] # "none"

\* Validation turned the recipient down: 400, the string listed as invalid.
Rejected(r) ==
  /\ Answered(r)
  /\ Response(r).status = 400
  /\ Response(r).invalidNumbers = <<JsString(TheString(r))>>

\* C11 as stated: a recipient string is accepted exactly when it is "+"
\* followed by 1 to 15 digits whose first is 1-9, and rejected otherwise.
C11_OneToFifteenDigits ==
  \A r \in Reqs :
    pc[r] # "received" =>
      /\ Accepted(r) <=> PlusDigits(TheString(r), 1, 15)
      /\ Rejected(r) <=> ~PlusDigits(TheString(r), 1, 15)

\* C11 amended: a recipient string is accepted exactly when it is "+"
\* followed by 2 to 15 digits whose first is 1-9, and rejected otherwise.
C11_TwoToFifteenDigits ==
  \A r \in Reqs :
    pc[r] # "received" =>
      /\ Accepted(r) <=> PlusDigits(TheString(r), 2, 15)
      /\ Rejected(r) <=> ~PlusDigits(TheString(r), 2, 15)

\* "+" and 15 digits was accepted.
C11_Witness ==
  \E r \in Reqs : Accepted(r) /\ Len(TheString(r)) = 16

----------------------------------------------------------------------------
\* C12: for a validated request, with notification writes that do not fail,
\* the outcome list of the response is the list the provider results of the
\* recipients determine (recipient, status, message id or failure reason, in
\* input order), under the sequential loop of server.js and under Promise.all
\* of part_001 alike, whatever the order in which the calls settle: the two
\* revisions answer the same request and provider results with the same list.
C12_SameOutcomeList ==
  \A r \in Reqs :
    (/\ Dispatched(r)
     /\ RulesPass(body[r])
     /\ \A i \in 1..N(r) : setCall[r][i] # "rejected") =>
      /\ Response(r).results = ExpectedResults(r)
      /\ \A i \in 1..N(r) :
           Response(r).results[i].status =
             (IF createCall[r][i] = "resolved" THEN "success" ELSE "failed")

\* The Promise.all revision answered three recipients, the second of which
\* failed.
C12_Witness ==
  \E r \in Reqs :
    /\ server = "part_001" /\ Dispatched(r) /\ RulesPass(body[r]) /\ N(r) = 3
    /\ Entries(body[r])[1] # Entries(body[r])[3]
    /\ createCall[r][1] = "resolved"
    /\ createCall[r][2] = "rejected"
    /\ createCall[r][3] = "resolved"

----------------------------------------------------------------------------
\* The relay from the arrival of a request: middleware, routes, handlers.

\* server.js lines 50-59
allowedOrigins ==
  <<"http://localhost:5173",
    "http://localhost:5174",
    "https://web-production-fc86.up.railway.app",
    "https://boot-watcher.vercel.app",
    "https://bootwatcher.com",
    "https://www.bootwatcher.com",
    "https://bootwatcher-local-demo-git-master-aarons-projects-d1bad5c6.vercel.app",
    "https://bootwatcher-local-demo-kahyg9n67-aarons-projects-d1bad5c6.vercel.app">>

\* The origin in lower case, for the origins the model draws.
Lower(text) ==
  IF text = "HTTPS://BOOTWATCHER.COM" THEN "https://bootwatcher.com" ELSE text

\* Variant: the origin is compared without regard to case.
OriginAllowedIgnoringCase(o) ==
  \/ o.kind = "undefined"
  \/ o.text = ""
  \/ \E k \in 1..Len(allowedOrigins) : allowedOrigins[k] = Lower(o.text)

\* !origin || allowedOrigins.includes(origin), line 66
OriginAllowed(o) ==
  \/ o.kind = "undefined"
  \/ o.text = ""
  \/ \E k \in 1..Len(allowedOrigins) : allowedOrigins[k] = o.text

\* The message of the error of line 70.
CorsErrorMessage(o) == [text |-> "CORS error: Origin not allowed", origin |-> o.text]

\* The global error handler, lines 206-209.
GlobalErrorResponse(message) ==
  [status |-> 500, error |-> "Something went wrong!", details |-> message]

\* The cors middleware of server.js, lines 62-78: the request goes on to the
\* routes, or the error of the callback goes to the global error handler.
Cors(r) ==
  /\ server = "server.js"
  /\ pc[r] = "arrived"
  /\ IF OriginAllowed(origin[r])
     THEN /\ pc' = [pc EXCEPT ![r] = "received"]
          /\ UNCHANGED responses
     ELSE /\ responses' = [responses EXCEPT ![r] =
               Append(@, GlobalErrorResponse(CorsErrorMessage(origin[r])))]
          /\ pc' = [pc EXCEPT ![r] = "done"]
  /\ UNCHANGED <<server, body, idx, results, mapped, createCall, setCall,
                 providerCalls, store, context>>

\* The middleware of part_001, lines 93-104: every origin goes on.
CorsAllowAll(r) ==
  /\ server = "part_001"
  /\ pc[r] = "arrived"
  /\ pc' = [pc EXCEPT ![r] = "received"]
  /\ UNCHANGED <<server, body, idx, results, mapped, createCall, setCall,
                 responses, providerCalls, store, context>>

\* GET /users up to its await, lines 103-106.
GetUsers(r) ==
  /\ pc[r] = "received"
  /\ route[r] = "GET /users"
  /\ usersRead' = [usersRead EXCEPT ![r] = "pending"]
  /\ pc' = [pc EXCEPT ![r] = "awaitUsers"]
  /\ UNCHANGED <<server, body, idx, results, mapped, createCall, setCall,
                 responses, providerCalls, store, origin, route, nodeEnv, users,
                 host>>

\* usersRef.once resolves, lines 107-108: users || {}.
UsersResolves(r) ==
  /\ pc[r] = "awaitUsers"
  /\ usersRead[r] = "pending"
  /\ usersRead' = [usersRead EXCEPT ![r] = "resolved"]
  /\ responses' = [responses EXCEPT ![r] =
        Append(@, [status |-> 200, users |-> users])]
  /\ pc' = [pc EXCEPT ![r] = "done"]
  /\ UNCHANGED <<server, body, idx, results, mapped, createCall, setCall,
                 providerCalls, store, origin, route, nodeEnv, users,
                 host>>

\* The 500 response of GET /users: server.js lines 109-112, part_001 lines
\* 153-159.
UsersErrorResponse(message) ==
  IF server = "server.js" \/ nodeEnv = "development"
  THEN [status |-> 500, error |-> "Failed to fetch users", details |-> message]
  ELSE [status |-> 500, error |-> "Failed to fetch users"]

\* usersRef.once rejects.
UsersRejects(r) ==
  /\ pc[r] = "awaitUsers"
  /\ usersRead[r] = "pending"
  /\ usersRead' = [usersRead EXCEPT ![r] = "rejected"]
  /\ responses' = [responses EXCEPT ![r] =
        Append(@, UsersErrorResponse([text |-> "StoreError"]))]
  /\ pc' = [pc EXCEPT ![r] = "done"]
  /\ UNCHANGED <<server, body, idx, results, mapped, createCall, setCall,
                 providerCalls, store, origin, route, nodeEnv, users,
                 host>>

\* The 404 handler, lines 201-203.
NotFound(r) ==
  /\ pc[r] = "received"
  /\ route[r] \notin {"POST /send-sms", "GET /users"}
  /\ responses' = [responses EXCEPT ![r] =
        Append(@, [status |-> 404, error |-> "Route not found"])]
  /\ pc' = [pc EXCEPT ![r] = "done"]
  /\ UNCHANGED <<server, body, idx, results, mapped, createCall, setCall,
                 providerCalls, store, context>>

Origins ==
  {NoHeader, Header(""), Header("https://bootwatcher.com"),
   Header("HTTPS://BOOTWATCHER.COM"), Header("https://bootwatcher.com/"),
   Header("https://evil.example")}

Routes == {"POST /send-sms", "GET /users", "GET /missing"}

NodeEnvs == {"undefined", "development", "production"}

RelayBodies ==
  {[phoneNumbers |-> JsArray(es), message |-> JsString(Chars("hi")),
    parkingLot |-> lot] :
     es \in {<<JsString(Chars("+12"))>>,
             <<JsString(Chars("+12")), JsString(Chars("+909"))>>,
             <<JsString(Chars("+12")), JsString(Chars("bad"))>>},
     lot \in ParkingLotValues}

InitRelay ==
  /\ host = HostIdle
  /\ server \in Servers
  /\ origin \in [{1} -> Origins]
  /\ route \in [{1} -> Routes]
  /\ nodeEnv \in NodeEnvs
  /\ users \in {{}, SomeUsers}
  /\ usersRead = [r \in {1} |-> "none"]
  /\ body \in [{1} -> RelayBodies]
  /\ pc = [r \in {1} |-> "arrived"]
  /\ idx = [r \in {1} |-> 0]
  /\ results = [r \in {1} |-> <<>>]
  /\ mapped = [r \in {1} |-> <<>>]
  /\ createCall = [r \in {1} |-> [i \in 1..Len(Entries(body[r])) |-> "none"]]
  /\ setCall = [r \in {1} |-> [i \in 1..Len(Entries(body[r])) |-> "none"]]
  /\ responses = [r \in {1} |-> <<>>]
  /\ providerCalls = <<>>
  /\ store \in {<<>>, <<OldRecord>>}

NextRelay ==
  \/ \E r \in Reqs : Cors(r)
  \/ \E r \in Reqs : CorsAllowAll(r)
  \/ \E r \in Reqs : GetUsers(r)
  \/ \E r \in Reqs : UsersResolves(r)
  \/ \E r \in Reqs : UsersRejects(r)
  \/ \E r \in Reqs : NotFound(r)
  \/ \E r \in Reqs : SendSms(r)
  \/ \E r \in Reqs : CreateResolves(r)
  \/ \E r \in Reqs : CreateRejects(r)
  \/ \E r \in Reqs : SetResolves(r)
  \/ \E r \in Reqs : SetRejects(r)
  \/ \E r \in Reqs : SetNeverSettles(r)
  \/ \E r \in Reqs : \E i \in DOMAIN createCall[r] : CreateNeverSettles(r, i)
  \/ \E r \in Reqs : SendSmsPar(r)
  \/ \E r \in Reqs : \E i \in DOMAIN createCall[r] : MapResolves(r, i)
  \/ \E r \in Reqs : \E i \in DOMAIN createCall[r] : MapRejects(r, i)
  \/ \E r \in Reqs : JoinAll(r)

SpecRelay == InitRelay /\ [][NextRelay]_vars

----------------------------------------------------------------------------
\* Vocabulary of the properties of the relay.

Listed(o) ==
  /\ o.kind = "text"
  /\ o.text \in {allowedOrigins[k] : k \in 1..Len(allowedOrigins)}

\* No handler has run for the request, and nothing was done on its behalf.
KeptOut(r) ==
  /\ pc[r] \in {"arrived", "done"}
  /\ \A n \in 1..Len(providerCalls) : providerCalls[n].req # r
  /\ RecordsOf(r) = {}
  /\ usersRead[r] = "none"
  /\ \A i \in 1..N(r) : createCall[r][i] = "none" /\ setCall[r][i] = "none"
  /\ pc[r] = "done" =>
       /\ Len(responses[r]) = 1
       /\ Response(r).status = 500
       /\ Response(r).error = "Something went wrong!"

\* The request has gone past the middleware to the routes.
ReachedRoutes(r) ==
  /\ pc[r] # "arrived"
  /\ pc[r] = "done" =>
       ("error" \in DOMAIN Response(r) => Response(r).error # "Something went wrong!")

\* C13 as stated: a request whose Origin header is not equal to an entry of
\* the allow-list never reaches a route handler.
C13_UnlistedOriginKeptOut ==
  \A r \in Reqs :
    (server = "server.js" /\ origin[r].kind = "text" /\ ~Listed(origin[r])) =>
      KeptOut(r)

\* C13 amended: a request whose Origin header is not empty and not equal,
\* case included, to an entry of the allow-list never reaches a route handler
\* and causes no provider call and no store read or write; a request with a
\* listed origin, an empty Origin header or none reaches the route handlers.
C13_OriginDecidesEntry ==
  \A r \in Reqs :
    server = "server.js" =>
      IF origin[r].kind = "text" /\ origin[r].text # "" /\ ~Listed(origin[r])
      THEN KeptOut(r)
      ELSE pc[r] # "arrived" => ReachedRoutes(r)

\* A POST /send-sms whose origin differs from a listed one in case only was
\* answered by the global error handler.
C13_Witness ==
  \E r \in Reqs :
    /\ server = "server.js" /\ pc[r] = "done"
    /\ route[r] = "POST /send-sms"
    /\ origin[r] = Header("HTTPS://BOOTWATCHER.COM")
    /\ Response(r).status = 500

\* C14: in production mode no 500 response other than the report of a
\* dispatch carries the message of the internal error.
C14_NoDetailsInProduction ==
  \A r \in Reqs :
    (/\ Answered(r)
     /\ Response(r).status = 500
     /\ "results" \notin DOMAIN Response(r)
     /\ nodeEnv = "production") =>
      "details" \notin DOMAIN Response(r)

\* C15: no step changes what is under users/ or a record that is under
\* notifications/; the store changes only by one new record under a new id,
\* appended for a POST /send-sms request whose provider call succeeded.
C15_StoreOnlyGrows ==
  [][/\ users' = users
     /\ Len(store') \in {Len(store), Len(store) + 1}
     /\ \A n \in 1..Len(store) : store'[n] = store[n]
     /\ Len(store') = Len(store) + 1 =>
          LET new == store'[Len(store')]
          IN /\ new.req \in Reqs
             /\ route[new.req] = "POST /send-sms"
             /\ createCall[new.req][new.i] = "resolved"]_vars

\* A record was appended after the one that was there before the request.
C15_Witness ==
  /\ Len(store) = 2
  /\ store[1] = OldRecord
  /\ store[2].req = 1

----------------------------------------------------------------------------
\* The static host, part_000. A path is the sequence of its parts, a document
\* the sequence of its tags.

Root == <<"/">>
IndexPath == <<"/", "index", ".html">>
AboutPath == <<"/", "about", ".html">>
AssetPath == <<"/", "app", ".js">>
DashboardPath == <<"/", "dashboard">>
MissingHtmlPath == <<"/", "missing", ".html">>

Tag(t) == [tag |-> t]

\* req.path.endsWith('.html'), line 149
EndsWithHtml(path) == path[Len(path)] = ".html"

\* The keys of envVars, lines 158-167.
ConfigKeys ==
  {"VITE_MAPS_API_KEY", "VITE_FIREBASE_API_KEY", "VITE_FIREBASE_AUTH_DOMAIN",
   "VITE_FIREBASE_DATABASE_URL", "VITE_FIREBASE_PROJECT_ID",
   "VITE_FIREBASE_STORAGE_BUCKET", "VITE_FIREBASE_MESSAGING_SENDER_ID",
   "VITE_FIREBASE_APP_ID"}

\* process.env[key] || ''
EnvOrEmpty(env, key) ==
  IF key \in DOMAIN env /\ env[key] # "" THEN env[key] ELSE ""

\* envScript, line 170
EnvScript(env) ==
  [tag |-> "script", windowEnv |-> [key \in ConfigKeys |-> EnvOrEmpty(env, key)]]

\* html.replace('</head>', `${envScript}</head>`), line 171: the first
\* head-closing tag, if there is one.
RECURSIVE InjectBeforeHead(_, _)
InjectBeforeHead(html, script) ==
  IF html = <<>> THEN <<>>
  ELSE IF Head(html) = Tag("</head>") THEN <<script>> \o html
  ELSE <<Head(html)>> \o InjectBeforeHead(Tail(html), script)

AboutHtml == <<Tag("<head>"), Tag("</head>"), Tag("about")>>

\* fs.readFileSync(filePath) / the file express.static or sendFile sends
Content(path) ==
  IF path = IndexPath THEN host.html
  ELSE IF path = AboutPath THEN AboutHtml
  ELSE <<Tag("asset")>>

HostAnswers(response) ==
  host' = [host EXCEPT !.stage = "done", !.responses = Append(@, response)]

\* The middleware of lines 148-178.
InjectEnv ==
  /\ host.stage = "inject"
  /\ LET filePath == IF host.path = Root THEN IndexPath ELSE host.path
     IN IF (EndsWithHtml(host.path) \/ host.path = Root) /\ filePath \in host.files
        THEN HostAnswers([status |-> 200, file |-> filePath,
                          body |-> InjectBeforeHead(Content(filePath),
                                                    EnvScript(host.env))])
        ELSE host' = [host EXCEPT !.stage = "static"]
  /\ UNCHANGED <<server, body, pc, idx, results, mapped, createCall, setCall,
                 responses, providerCalls, store, origin, route, nodeEnv, users,
                 usersRead>>

\* express.static, line 181: a GET of a file that exists is answered with it.
ServeStatic ==
  /\ host.stage = "static"
  /\ LET filePath == IF host.path = Root THEN IndexPath ELSE host.path
     IN IF host.method = "GET" /\ filePath \in host.files
        THEN HostAnswers([status |-> 200, file |-> filePath,
                          body |-> Content(filePath)])
        ELSE host' = [host EXCEPT !.stage = "fallback"]
  /\ UNCHANGED <<server, body, pc, idx, results, mapped, createCall, setCall,
                 responses, providerCalls, store, origin, route, nodeEnv, users,
                 usersRead>>

\* app.get('*'), lines 184-186: res.sendFile of index.html; a request of
\* another method, or a missing index.html, ends in 404.
SpaFallback ==
  /\ host.stage = "fallback"
  /\ IF host.method = "GET" /\ IndexPath \in host.files
     THEN HostAnswers([status |-> 200, file |-> IndexPath,
                       body |-> Content(IndexPath)])
     ELSE HostAnswers([status |-> 404, file |-> <<>>, body |-> <<>>])
  /\ UNCHANGED <<server, body, pc, idx, results, mapped, createCall, setCall,
                 responses, providerCalls, store, origin, route, nodeEnv, users,
                 usersRead>>

HostPaths == {Root, IndexPath, AboutPath, AssetPath, DashboardPath, MissingHtmlPath}

HostFiles == SUBSET {IndexPath, AboutPath, AssetPath}

IndexHtmls ==
  {<<Tag("<head>"), Tag("<title>"), Tag("</head>"), Tag("<body>")>>,
   <<Tag("<head>"), Tag("</head>"), Tag("<body>"), Tag("</head>")>>,
   <<Tag("<body>")>>}

HostEnvs ==
  {[VITE_MAPS_API_KEY |-> "maps-key", VITE_FIREBASE_API_KEY |-> "",
    TWILIO_API_KEY_SECRET |-> "secret", PORT |-> "8080"],
   [PORT |-> "8080"]}

InitStatic ==
  /\ host \in [method : {"GET", "POST"}, path : HostPaths, files : HostFiles,
               html : IndexHtmls, env : HostEnvs, stage : {"inject"},
               responses : {<<>>}]
  /\ server = "server.js"
  /\ body = <<>>
  /\ pc = <<>>
  /\ idx = <<>>
  /\ results = <<>>
  /\ mapped = <<>>
  /\ createCall = <<>>
  /\ setCall = <<>>
  /\ responses = <<>>
  /\ providerCalls = <<>>
  /\ store = <<>>
  /\ origin = <<>>
  /\ route = <<>>
  /\ nodeEnv = "undefined"
  /\ users = {}
  /\ usersRead = <<>>

NextStatic == InjectEnv \/ ServeStatic \/ SpaFallback

SpecStatic == InitStatic /\ [][NextStatic]_vars

\* C16: every response whose body is the root document has the configuration
\* script right before the head-closing tag, and the script holds the eight
\* configuration keys and nothing else of the environment.
C16_RootDocumentHasConfig ==
  (/\ host.stage = "done"
   /\ host.responses[1].status = 200
   /\ host.responses[1].file = IndexPath
   /\ \E k \in 1..Len(host.html) : host.html[k] = Tag("</head>")) =>
    \E k \in 1..(Len(host.responses[1].body) - 1) :
      LET doc == host.responses[1].body
      IN /\ doc[k].tag = "script"
         /\ doc[k + 1] = Tag("</head>")
         /\ \A j \in 1..(k - 1) : doc[j] # Tag("</head>")
         /\ DOMAIN doc[k].windowEnv = ConfigKeys
         /\ Cardinality(ConfigKeys) = 8
         /\ \A key \in ConfigKeys :
              doc[k].windowEnv[key] =
                (IF key \in DOMAIN host.env THEN host.env[key] ELSE "")

----------------------------------------------------------------------------
\* Two POST /send-sms requests in flight in one process of server.js. The
\* requests differ in their recipients, message and origin label.

FirstBodies ==
  {[phoneNumbers |-> JsArray(<<JsString(Chars("+12")), JsString(Chars("+12"))>>),
    message |-> JsString(Chars("hi")),
    parkingLot |-> JsString(Chars("LotA"))],
   [phoneNumbers |-> JsArray(<<JsString(Chars("+12"))>>),
    message |-> JsString(Chars("hi")),
    parkingLot |-> JsUndefined]}

SecondBodies ==
  {[phoneNumbers |-> JsArray(<<JsString(Chars("+909"))>>),
    message |-> JsString(<<"y", "o">>),
    parkingLot |-> JsUndefined],
   [phoneNumbers |-> JsArray(<<JsString(Chars("+909")), JsString(Chars("bad"))>>),
    message |-> JsString(<<"y", "o">>),
    parkingLot |-> JsUndefined]}

ConcBodies ==
  {b \in [{1, 2} -> FirstBodies \cup SecondBodies] :
     b[1] \in FirstBodies /\ b[2] \in SecondBodies}

InitConc ==
  /\ InitContext({1, 2})
  /\ server = "server.js"
  /\ body \in ConcBodies
  /\ pc = [r \in {1, 2} |-> "received"]
  /\ idx = [r \in {1, 2} |-> 0]
  /\ results = [r \in {1, 2} |-> <<>>]
  /\ mapped = [r \in {1, 2} |-> <<>>]
  /\ createCall = [r \in {1, 2} |-> [i \in 1..Len(Entries(body[r])) |-> "none"]]
  /\ setCall = [r \in {1, 2} |-> [i \in 1..Len(Entries(body[r])) |-> "none"]]
  /\ responses = [r \in {1, 2} |-> <<>>]
  /\ providerCalls = <<>>
  /\ store = <<>>

SpecConc == InitConc /\ [][NextSeq]_vars

\* The outcome list of a response names the recipients of its own request,
\* one entry each, in the order of the request.
OutcomesOfOwnRequest ==
  \A r \in Reqs :
    Dispatched(r) =>
      /\ Len(Response(r).results) = N(r)
      /\ \A i \in 1..N(r) :
           Response(r).results[i].phoneNumber = Entries(body[r])[i]

\* Every entry of an outcome list names a recipient of its own request.
OutcomesFromOwnRequest ==
  \A r \in Reqs :
    Dispatched(r) =>
      \A k \in 1..Len(Response(r).results) :
        \E i \in 1..N(r) : Response(r).results[k].phoneNumber = Entries(body[r])[i]

\* Every record carries the recipient, message and label of the request whose
\* handler appended it.
RecordsCarryOwnRequest ==
  \A n \in 1..Len(store) :
    LET r == store[n].req
    IN /\ r \in Reqs
       /\ store[n].i \in 1..N(r)
       /\ store[n].phoneNumber = Entries(body[r])[store[n].i]
       /\ store[n].message = body[r].message
       /\ store[n].parkingLot =
            (IF body[r].parkingLot = JsUndefined
             THEN JsString(Chars("Unknown")) ELSE body[r].parkingLot)

\* The calls the provider received for a request carry its own message.
CallsCarryOwnRequest ==
  \A n \in 1..Len(providerCalls) :
    LET r == providerCalls[n].req
    IN /\ providerCalls[n].body = body[r].message
       /\ providerCalls[n].to = Entries(body[r])[providerCalls[n].i]

\* C17: with two requests in flight, the outcome list of each response holds
\* the recipients of its own request in its own order, and every record
\* appended carries the message and the label (or "Unknown") of the request
\* that caused it.
C17_RequestsIsolated ==
  /\ OutcomesOfOwnRequest
  /\ RecordsCarryOwnRequest

\* Both requests answered after their steps interleaved: the second request
\* was accepted while the first awaited a call, and records of both were
\* appended.
C17_Interleaved ==
  /\ Dispatched(1) /\ Dispatched(2)
  /\ RecordsOf(1) # {} /\ RecordsOf(2) # {}
  /\ \E m, n \in 1..Len(providerCalls) :
       /\ m < n
       /\ providerCalls[m].req = 2
       /\ providerCalls[n].req = 1
       /\ \E k \in 1..(m - 1) : providerCalls[k].req = 1

----------------------------------------------------------------------------
\* The event loop runs the continuation of every call that has settled, and a
\* handler that can run does run. A call may stay pending for ever.

Progress ==
  \E r \in Reqs :
    \/ SendSms(r)
    \/ CreateResolves(r)
    \/ CreateRejects(r)
    \/ SetResolves(r)
    \/ SetRejects(r)
    \/ SendSmsPar(r)
    \/ \E i \in DOMAIN createCall[r] : MapResolves(r, i)
    \/ \E i \in DOMAIN createCall[r] : MapRejects(r, i)
    \/ JoinAll(r)

SpecFair == Init /\ [][Next]_vars /\ WF_vars(Progress)

\* A provider call or a store write of the request never settles.
SomeNeverSettles(r) ==
  \/ \E i \in DOMAIN createCall[r] : createCall[r][i] = "never"
  \/ \E i \in DOMAIN setCall[r] : setCall[r][i] = "never"

AtMostOneResponse ==
  \A r \in Reqs :
    /\ Len(responses[r]) <= 1
    /\ Answered(r) => Response(r).status \in {200, 400, 500}
    /\ pc[r] = "done" => Answered(r)

\* C18: a request whose provider calls and store writes all settle is
\* answered in the end, once, with status 200, 400 or 500; no request is
\* answered twice, and no handler ends without an answer.
C18_ExactlyOneResponse ==
  /\ []AtMostOneResponse
  /\ <>(\A r \in Reqs : Answered(r) \/ SomeNeverSettles(r))

\* A request answered after a provider call failed and a store write failed.
C18_Witness ==
  \E r \in Reqs :
    /\ pc[r] = "done"
    /\ Len(responses[r]) = 1
    /\ \E i \in DOMAIN createCall[r] : createCall[r][i] = "rejected"
    /\ \E i \in DOMAIN setCall[r] : setCall[r][i] = "rejected"
    /\ ~SomeNeverSettles(r)

====
